---- MODULE Spec2Model ----
(***************************************************************************)
(* Job Store (JobManager) and Pipeline Orchestrator (process_video) of the *)
(* recipe-extraction service, with the job-facing HTTP endpoints.          *)
(*                                                                         *)
(* Conventions.  Text is a sequence of tokens, so that "message contains   *)
(* the error text" is a statement about sub-sequences.  A transcript's     *)
(* full_text is represented by its number of characters.  A Python dict    *)
(* is a function on its keys; dict.update is a right-biased merge.  The    *)
(* OrderedDict _jobs is the sequence of its values in insertion order.     *)
(* Each await of an external provider is a suspension point: everything a  *)
(* coroutine does between two awaits is one action.                        *)
(***************************************************************************)
EXTENDS Integers, Sequences, FiniteSets, TLC

(***************************************************************************)
(* Bounds of the model.                                                    *)
(***************************************************************************)
\* how many jobs are ever created (distinct uuid4 values)
MaxCreates == 2
\* how many of the scheduled background runs get to start
MaxRuns == 1
\* how far the wall clock advances, in hours
MaxTime == 2

(***************************************************************************)
(* Configuration and constants of the program.                             *)
(***************************************************************************)
\* JobManager._max_jobs
max_jobs == 1
\* JobManager._expire_hours
expire_hours == 1
MIN_TRANSCRIPT_LENGTH == 20

JobIds == 1..MaxCreates
\* request URLs: empty, not a YouTube URL, a YouTube shorts URL
Urls == {"", "example.com/x", "youtube.com/shorts/v1"}
\* error texts carried by provider exceptions
DownloadErrors == {<<"video unavailable">>}
TranscribeErrors == {<<"audio too large">>}
\* lengths of full_text the speech-to-text provider may produce
TranscriptLens == {0, 19, 20}
\* what parse_recipe returns: a validated recipe or the degraded placeholder
Recipes == {"validated", "placeholder"}

\* Python None, for str-valued and for dict-valued slots
NoneStr == "None"
None == [none |-> TRUE]

VARIABLES
    jobs,         \* JobManager._jobs: sequence of job dicts, insertion order
    dirs,         \* job ids whose working directory DATA_DIR/job_id exists
    now,          \* datetime.now(), in hours
    nextId,       \* number of job ids handed out so far
    run,          \* per job id: the background process_video coroutine
    resp,         \* response of the endpoint call made by the last step
    calls,        \* history: per job id, provider calls and their returns, in order
    progressLog,  \* history: per stored job, every progress value written so far
    sweep,        \* history: what the sweep of the create made by the last step removed
    lateWrites    \* history: ids whose run called update_job after the record was removed

\* the cooking chat (routers/chat.py)
VARIABLES
    cooking_sessions,  \* the session store: session id -> session dict
    issued,            \* session ids uuid4 has returned so far
    upload,            \* the /message-with-image request suspended at image.read()
    chatResp,          \* response of the chat endpoint call made by the last step
    sent,              \* history: the provider attempts made by the last step, in order
    lastTurn           \* history: per session id, time.time() of its last committed turn

\* the event loop and the lock of the Job Store
VARIABLES
    _lock,             \* JobManager._lock: the task that holds it, or Free
    loop_task,         \* the task the event loop is running, or Idle
    inside             \* tasks that are inside a mutating JobManager method

\* the test router (routers/test.py)
VARIABLES
    test_run           \* the /api/test/full request being served: position and locals

lockVars == <<_lock, loop_task, inside>>
testVars == <<test_run>>
jobVars == <<jobs, dirs, nextId, run, resp, calls, progressLog, sweep, lateWrites,
             _lock, loop_task, inside, test_run>>
chatVars == <<cooking_sessions, issued, upload, chatResp, sent, lastTurn>>
vars == <<jobs, dirs, now, nextId, run, resp, calls, progressLog, sweep, lateWrites,
          cooking_sessions, issued, upload, chatResp, sent, lastTurn,
          _lock, loop_task, inside, test_run>>

(***************************************************************************)
(* Helpers for text and dicts.                                             *)
(***************************************************************************)
Contains(text, part) ==
    \E i \in 1..(Len(text) - Len(part) + 1) :
        SubSeq(text, i, i + Len(part) - 1) = part

\* dict.get(key, default)
Get(d, key, default) == IF key \in DOMAIN d THEN d[key] ELSE default

\* d.update(kwargs)
DictUpdate(d, kwargs) == kwargs @@ d

Keys(js) == {js[i].job_id : i \in 1..Len(js)}

IndexOf(js, job_id) == CHOOSE i \in 1..Len(js) : js[i].job_id = job_id

NoResp == [op |-> "none"]

\* asyncio.Lock() unlocked; the event loop with no task running
Free == [task |-> "none"]
Idle == [task |-> "none"]

(***************************************************************************)
(* JobManager                                                              *)
(***************************************************************************)
\* get_job: self._jobs.get(job_id)
get_job(js, job_id) ==
    IF job_id \in Keys(js) THEN js[IndexOf(js, job_id)] ELSE None

update_job_upsert(js, job_id, kwargs, t) ==
    IF job_id \in Keys(js)
    THEN [js EXCEPT ![IndexOf(js, job_id)] =
             [updated_at |-> t] @@ DictUpdate(@, kwargs)]
    ELSE Append(js, [updated_at |-> t] @@ DictUpdate([job_id |-> job_id], kwargs))

update_job_all(js, job_id, kwargs, t) ==
    IF job_id \in Keys(js)
    THEN [i \in 1..Len(js) |-> [updated_at |-> t] @@ DictUpdate(js[i], kwargs)]
    ELSE js

\* update_job: merge kwargs into the record and refresh updated_at; no-op if absent
update_job(js, job_id, kwargs, t) ==
    IF job_id \in Keys(js)
    THEN [js EXCEPT ![IndexOf(js, job_id)] =
             [updated_at |-> t] @@ DictUpdate(@, kwargs)]
    ELSE js

\* delete_job: del self._jobs[job_id] if present
delete_job(js, job_id) ==
    SelectSeq(js, LAMBDA job : job.job_id # job_id)

\* cleanup_job_files: shutil.rmtree(DATA_DIR / job_id) if it exists
cleanup_job_files(ds, job_id) == ds \ {job_id}

\* the expired_jobs list comprehension of _cleanup_old_jobs
IsExpired(job, t) == Get(job, "created_at", t) < t - expire_hours

expired_jobs(js, t) == {js[i].job_id : i \in {k \in 1..Len(js) : IsExpired(js[k], t)}}

EvictNothing(st) == st

EvictNewest(st) ==
    IF Len(st.jobs) > max_jobs
    THEN [jobs |-> SubSeq(st.jobs, 1, max_jobs),
          dirs |-> st.dirs \ {st.jobs[i].job_id : i \in (max_jobs + 1)..Len(st.jobs)}]
    ELSE st

\* the while loop of _cleanup_old_jobs: evict next(iter(self._jobs))
RECURSIVE EvictOverCapacity(_)
EvictOverCapacity(st) ==
    IF Len(st.jobs) > max_jobs
    THEN EvictOverCapacity([jobs |-> Tail(st.jobs),
                            dirs |-> cleanup_job_files(st.dirs, Head(st.jobs).job_id)])
    ELSE st

\* _cleanup_old_jobs on the store and the disk, at time t
_cleanup_old_jobs(st, t) ==
    LET expired == expired_jobs(st.jobs, t)
        kept == SelectSeq(st.jobs, LAMBDA job : job.job_id \notin expired)
    IN  EvictOverCapacity([jobs |-> kept, dirs |-> st.dirs \ expired])

\* create_job: insert the pending record, then sweep
create_job(st, job_id, url, video_id, t) ==
    LET job == [job_id |-> job_id, status |-> "pending", progress |-> 0,
                message |-> <<"waiting...">>, url |-> url, video_id |-> video_id,
                result |-> None, created_at |-> t, updated_at |-> t]
    IN  _cleanup_old_jobs([jobs |-> Append(st.jobs, job), dirs |-> st.dirs], t)

(***************************************************************************)
(* The keyword arguments of the update_job calls of the pipeline.          *)
(***************************************************************************)
DownloadStartKwargs_nostatus ==
    [step |-> "download", message |-> <<"downloading video...">>, progress |-> 5]

\* _step_download, first update
DownloadStartKwargs ==
    [status |-> "processing", step |-> "download",
     message |-> <<"downloading video...">>, progress |-> 5]

\* _step_download, second update
DownloadDoneKwargs(video_info) ==
    [message |-> <<"download done!">>, progress |-> 25, video_info |-> video_info]

SttStartKwargs_low ==
    [step |-> "stt", message |-> <<"recognising speech... (Whisper AI)">>, progress |-> 20]

\* _step_extract_transcript, update before transcribe_audio
SttStartKwargs ==
    [step |-> "stt", message |-> <<"recognising speech... (Whisper AI)">>, progress |-> 35]

\* _step_extract_transcript, update after the validity check
TranscriptDoneKwargs ==
    [message |-> <<"text extracted!">>, progress |-> 50]

\* _step_parse_recipe, first update
ParsingStartKwargs ==
    [step |-> "parsing", message |-> <<"analysing recipe with GPT-4o...">>, progress |-> 55]

\* _step_parse_recipe, second update
ParsingDoneKwargs ==
    [message |-> <<"recipe analysed!">>, progress |-> 90]

CompletedKwargs_noresult(result) ==
    [step |-> "done", message |-> <<"recipe extracted!">>, progress |-> 100,
     status |-> "completed"]

\* process_video, the update that stores the result
CompletedKwargs(result) ==
    [step |-> "done", message |-> <<"recipe extracted!">>, progress |-> 100,
     status |-> "completed", result |-> result]

FailedKwargs_keepprogress(error_message) ==
    [status |-> "failed", message |-> <<"error: ">> \o error_message]

FailedKwargs_nostatus(error_message) ==
    [message |-> <<"error: ">> \o error_message, progress |-> 0]

\* process_video, the update of the except branch
FailedKwargs(error_message) ==
    [status |-> "failed", message |-> <<"error: ">> \o error_message, progress |-> 0]

\* the Exception raised by _step_download on YouTubeDownloadError
DownloadFailedText(e) == <<"download failed: ">> \o e

\* the Exception raised by _step_extract_transcript on TranscriptionError
SttFailedText(e) == <<"speech recognition failed: ">> \o e

\* the Exception raised by _step_extract_transcript for an invalid transcript
NoTextExtracted == <<"no text could be extracted from the video">>

_is_valid_transcript_always(transcript) == TRUE

_is_valid_transcript_nonempty(transcript) ==
    IF transcript = None
    THEN FALSE
    ELSE Get(transcript, "full_text", 0) > 0

\* _is_valid_transcript
_is_valid_transcript(transcript) ==
    IF transcript = None
    THEN FALSE
    ELSE Get(transcript, "full_text", 0) >= MIN_TRANSCRIPT_LENGTH

\* extract_video_id: the id of a YouTube URL, None for anything else
extract_video_id(url) ==
    IF url = "youtube.com/shorts/v1" THEN "v1" ELSE NoneStr

\* a run of update_job calls on job_id with no await between them:
\* the store after them and the progress values they wrote
RECURSIVE ApplyUpdates(_, _, _, _)
ApplyUpdates(js, job_id, kwargsList, t) ==
    IF kwargsList = <<>>
    THEN [jobs |-> js, log |-> <<>>]
    ELSE LET js1 == update_job(js, job_id, Head(kwargsList), t)
             rest == ApplyUpdates(js1, job_id, Tail(kwargsList), t)
             seen == IF job_id \in Keys(js1)
                     THEN <<get_job(js1, job_id).progress>>
                     ELSE <<>>
         IN  [jobs |-> rest.jobs, log |-> seen \o rest.log]

(***************************************************************************)
(* Initial state: an empty store at process start.                         *)
(***************************************************************************)
NoRun == [pc |-> "none", url |-> NoneStr, video_info |-> None, transcript |-> None]

NoSweep == [expired |-> {}, evicted |-> {}]

Init ==
    /\ jobs = <<>>
    /\ dirs = {}
    /\ now = 0
    /\ nextId = 0
    /\ run = [j \in JobIds |-> NoRun]
    /\ resp = NoResp
    /\ calls = [j \in JobIds |-> <<>>]
    /\ progressLog = [j \in JobIds |-> <<>>]
    /\ sweep = NoSweep
    /\ lateWrites = {}
    /\ cooking_sessions = [sid \in {} |-> None]
    /\ issued = {}
    /\ upload = None
    /\ chatResp = NoResp
    /\ sent = <<>>
    /\ lastTurn = [sid \in {} |-> 0]
    /\ _lock = Free
    /\ loop_task = Idle
    /\ inside = {}
    /\ test_run = [pc |-> "idle"]

\* the wall clock advances
Tick ==
    /\ now < MaxTime
    /\ now' = now + 1
    /\ resp' = NoResp
    /\ sweep' = NoSweep
    /\ UNCHANGED <<jobs, dirs, nextId, run, calls, progressLog, lateWrites>>

(***************************************************************************)
(* Endpoints.                                                              *)
(***************************************************************************)
\* POST /analyze: validate the URL, create the job, schedule process_video
analyze_video(url) ==
    /\ nextId < MaxCreates
    /\ IF url = ""
       THEN /\ resp' = [op |-> "analyze", code |-> 400, detail |-> "no url"]
            /\ sweep' = NoSweep
            /\ UNCHANGED <<jobs, dirs, nextId, run, progressLog>>
       ELSE IF extract_video_id(url) = NoneStr
       THEN /\ resp' = [op |-> "analyze", code |-> 400, detail |-> "invalid url"]
            /\ sweep' = NoSweep
            /\ UNCHANGED <<jobs, dirs, nextId, run, progressLog>>
       ELSE LET job_id == nextId + 1
                st == create_job([jobs |-> jobs, dirs |-> dirs], job_id, url,
                                 extract_video_id(url), now)
                gone == (Keys(jobs) \cup {job_id}) \ Keys(st.jobs)
                expired == {j \in gone \ {job_id} :
                               now - get_job(jobs, j).created_at > expire_hours}
            IN  /\ jobs' = st.jobs
                /\ dirs' = st.dirs
                /\ nextId' = job_id
                /\ run' = [run EXCEPT ![job_id] = [NoRun EXCEPT !.pc = "scheduled",
                                                                !.url = url]]
                /\ resp' = [op |-> "analyze", code |-> 200, job_id |-> job_id]
                /\ progressLog' = [j \in JobIds |->
                                      IF j = job_id THEN <<0>>
                                      ELSE IF j \in Keys(st.jobs) THEN progressLog[j]
                                      ELSE <<>>]
                /\ sweep' = [expired |-> expired, evicted |-> gone \ expired]
    /\ UNCHANGED <<now, calls, lateWrites>>

get_job_status_response_stale(job, job_id) ==
    IF job = None
    THEN [code |-> 200, job_id |-> job_id, status |-> "pending", progress |-> 0,
          message |-> <<"waiting...">>, video_id |-> NoneStr]
    ELSE [code |-> 200, job_id |-> job_id, status |-> job.status,
          progress |-> job.progress, message |-> job.message,
          video_id |-> Get(job, "video_id", NoneStr)]

\* get_job_status: 404 if the record is absent, else its status fields
get_job_status_response(job, job_id) ==
    IF job = None
    THEN [code |-> 404, detail |-> <<"job not found">>]
    ELSE [code |-> 200, job_id |-> job_id, status |-> job.status,
          progress |-> job.progress, message |-> job.message,
          video_id |-> Get(job, "video_id", NoneStr)]

\* GET /status/{job_id}
get_job_status(job_id) ==
    /\ resp' = [op |-> "status", job_id |-> job_id,
                body |-> get_job_status_response(get_job(jobs, job_id), job_id)]
    /\ sweep' = NoSweep
    /\ UNCHANGED <<jobs, dirs, now, nextId, run, calls, progressLog, lateWrites>>

get_result_response_unfinished(job) ==
    IF job = None
    THEN [code |-> 404, detail |-> <<"job not found">>]
    ELSE IF job.status = "failed"
    THEN [code |-> 400, detail |-> Get(job, "message", <<"job failed">>)]
    ELSE [code |-> 200, result |-> job.result]

\* get_result: 404 if absent, 400 if failed or not completed, else the result
get_result_response(job) ==
    IF job = None
    THEN [code |-> 404, detail |-> <<"job not found">>]
    ELSE IF job.status = "failed"
    THEN [code |-> 400, detail |-> Get(job, "message", <<"job failed">>)]
    ELSE IF job.status # "completed"
    THEN [code |-> 400, detail |-> <<"not finished yet">>]
    ELSE [code |-> 200, result |-> job.result]

\* GET /result/{job_id}
get_result(job_id) ==
    /\ resp' = [op |-> "result", job_id |-> job_id,
                body |-> get_result_response(get_job(jobs, job_id))]
    /\ sweep' = NoSweep
    /\ UNCHANGED <<jobs, dirs, now, nextId, run, calls, progressLog, lateWrites>>

\* DELETE /job/{job_id}: 404 if absent, else remove the files and the record
delete_job_endpoint(job_id) ==
    /\ IF get_job(jobs, job_id) = None
       THEN /\ resp' = [op |-> "delete", job_id |-> job_id, code |-> 404]
            /\ UNCHANGED <<jobs, dirs, progressLog>>
       ELSE /\ dirs' = cleanup_job_files(dirs, job_id)
            /\ jobs' = delete_job(jobs, job_id)
            /\ resp' = [op |-> "delete", job_id |-> job_id, code |-> 200]
            /\ progressLog' = [progressLog EXCEPT ![job_id] = <<>>]
    /\ sweep' = NoSweep
    /\ UNCHANGED <<now, nextId, run, calls, lateWrites>>

(***************************************************************************)
(* process_video, one action per stretch between two awaits.               *)
(***************************************************************************)
\* what download_video may do: return the video info or raise
DownloadOutcomes ==
    {[kind |-> "ok"]}
    \cup {[kind |-> "YouTubeDownloadError", text |-> e] : e \in DownloadErrors}
    \cup {[kind |-> "Exception", text |-> e] : e \in DownloadErrors}

\* what transcribe_audio may do: return a transcript or raise TranscriptionError
TranscribeOutcomes ==
    {[kind |-> "ok", transcript |-> [full_text |-> n, language |-> "ko"]] :
        n \in TranscriptLens}
    \cup {[kind |-> "TranscriptionError", text |-> e] : e \in TranscribeErrors}

\* the update_job calls a run makes in one stretch, and what is common to
\* every stretch of a run: no response, no sweep, the clock and the ids untouched
Stretch(job_id, kwargsList, locals, events) ==
    LET r == ApplyUpdates(jobs, job_id, kwargsList, now)
    IN  /\ jobs' = r.jobs
        /\ progressLog' = [progressLog EXCEPT ![job_id] = @ \o r.log]
        /\ lateWrites' = IF job_id \in Keys(jobs) THEN lateWrites
                         ELSE lateWrites \cup {job_id}
        /\ run' = [run EXCEPT ![job_id] = locals]
        /\ calls' = [calls EXCEPT ![job_id] = @ \o events]
        /\ resp' = NoResp
        /\ sweep' = NoSweep
        /\ UNCHANGED <<now, nextId>>

\* the except branch of process_video: mark the job failed, the run is over
Fail(job_id, error_message) ==
    /\ Stretch(job_id, <<FailedKwargs(error_message)>>,
               [run[job_id] EXCEPT !.pc = "end_except"], <<>>)
    /\ UNCHANGED dirs

\* from the start of process_video to the await of download_video
process_video_begin(job_id) ==
    /\ run[job_id].pc = "scheduled"
    /\ dirs' = dirs \cup {job_id}
    /\ Stretch(job_id, <<DownloadStartKwargs>>,
               [run[job_id] EXCEPT !.pc = "download"], <<[call |-> "download"]>>)

\* the background task starts, for the first MaxRuns tasks that do
process_video_start(job_id) ==
    /\ Cardinality({j \in JobIds : run[j].pc \notin {"none", "scheduled"}}) < MaxRuns
    /\ process_video_begin(job_id)

\* download_video returns or raises; on success on to the await of transcribe_audio
download_returns(job_id, outcome) ==
    /\ run[job_id].pc = "download"
    /\ IF outcome.kind = "ok"
       THEN LET video_info == [audio_path |-> "audio.mp3",
                               video_id |-> extract_video_id(run[job_id].url),
                               url |-> run[job_id].url]
            IN  /\ Stretch(job_id, <<DownloadDoneKwargs(video_info), SttStartKwargs>>,
                           [run[job_id] EXCEPT !.pc = "stt", !.video_info = video_info],
                           <<[ret |-> "download"], [call |-> "stt"]>>)
                /\ UNCHANGED dirs
       ELSE IF outcome.kind = "YouTubeDownloadError"
       THEN Fail(job_id, DownloadFailedText(outcome.text))
       ELSE Fail(job_id, outcome.text)

\* transcribe_audio returns or raises; on a valid transcript on to parse_recipe
transcribe_returns(job_id, outcome) ==
    /\ run[job_id].pc = "stt"
    /\ IF outcome.kind = "ok"
       THEN IF _is_valid_transcript(outcome.transcript)
            THEN /\ Stretch(job_id, <<TranscriptDoneKwargs, ParsingStartKwargs>>,
                            [run[job_id] EXCEPT !.pc = "parsing",
                                                !.transcript = outcome.transcript],
                            <<[ret |-> "stt", transcript |-> outcome.transcript],
                              [call |-> "parse", transcript |-> outcome.transcript]>>)
                 /\ UNCHANGED dirs
            ELSE Fail(job_id, NoTextExtracted)
       ELSE Fail(job_id, SttFailedText(outcome.text))

\* parse_recipe has returned the recipe, having done `events`; the result is stored
parse_done(job_id, recipe, events) ==
    /\ run[job_id].pc = "parsing"
    /\ LET timing == [download |-> "elapsed", transcript |-> "elapsed",
                      transcript_source |-> "whisper", parsing |-> "elapsed",
                      total |-> "elapsed"]
           result == [recipe |-> recipe, video_info |-> run[job_id].video_info,
                      transcript |-> run[job_id].transcript, timing |-> timing]
       IN  Stretch(job_id, <<ParsingDoneKwargs, CompletedKwargs(result)>>,
                   [run[job_id] EXCEPT !.pc = "end_try"], events)
    /\ UNCHANGED dirs

\* parse_recipe returns (it never raises); the result is stored
parse_returns(job_id, recipe) == parse_done(job_id, recipe, <<[ret |-> "parse"]>>)

\* the job-facing part of the service; the chat store is not touched by it
Next ==
    \/ Tick /\ UNCHANGED <<chatVars, lockVars, testVars>>
    \/ \E url \in Urls : analyze_video(url) /\ UNCHANGED <<chatVars, lockVars, testVars>>
    \/ \E job_id \in JobIds : get_job_status(job_id) /\ UNCHANGED <<chatVars, lockVars, testVars>>
    \/ \E job_id \in JobIds : get_result(job_id) /\ UNCHANGED <<chatVars, lockVars, testVars>>
    \/ \E job_id \in JobIds : delete_job_endpoint(job_id) /\ UNCHANGED <<chatVars, lockVars, testVars>>
    \/ \E job_id \in JobIds : process_video_start(job_id) /\ UNCHANGED <<chatVars, lockVars, testVars>>
    \/ \E job_id \in JobIds : \E outcome \in DownloadOutcomes :
           download_returns(job_id, outcome) /\ UNCHANGED <<chatVars, lockVars, testVars>>
    \/ \E job_id \in JobIds : \E outcome \in TranscribeOutcomes :
           transcribe_returns(job_id, outcome) /\ UNCHANGED <<chatVars, lockVars, testVars>>
    \/ \E job_id \in JobIds : \E recipe \in Recipes :
           parse_returns(job_id, recipe) /\ UNCHANGED <<chatVars, lockVars, testVars>>

Spec == Init /\ [][Next]_vars

(***************************************************************************)
(* Properties.                                                             *)
(***************************************************************************)
Stored(job_id) == get_job(jobs, job_id)

StoredNext(job_id) == get_job(jobs', job_id)

Created == 1..nextId

IsNonDecreasing(seq) == \A i \in 1..(Len(seq) - 1) : seq[i] <= seq[i + 1]

\* C1: the store never holds more than max_jobs records; create is one step,
\* so this is the count after every create call returns, whatever creates,
\* updates, deletes and clock advances came before.
C1_CountAtMostMax == Len(jobs) <= max_jobs

\* a create whose sweep had to remove records to get down to the maximum
C1_Witness ==
    /\ resp.op = "analyze" /\ resp.code = 200
    /\ sweep.evicted # {}
    /\ Len(jobs) = max_jobs

C2_WitnessExpired == resp.op = "analyze" /\ sweep.expired # {}

\* C3: a record is created pending and its status only moves pending ->
\* processing -> completed or failed; once completed or failed, its status,
\* progress and result stay as they are.
C3_StatusTransitions ==
    [][/\ \A j \in Keys(jobs') \ Keys(jobs) : StoredNext(j).status = "pending"
       /\ \A j \in Keys(jobs) \cap Keys(jobs') :
            LET a == Stored(j)
                b == StoredNext(j)
            IN  /\ \/ b.status = a.status
                   \/ <<a.status, b.status>> \in {<<"pending", "processing">>,
                                                  <<"processing", "completed">>,
                                                  <<"processing", "failed">>}
                /\ a.status \in {"completed", "failed"} =>
                       /\ b.progress = a.progress
                       /\ b.result = a.result
    ]_vars

\* a record that failed in the transcript stage, having been processing
C3_Witness ==
    \E j \in Keys(jobs) :
        /\ Stored(j).status = "failed"
        /\ Stored(j).step = "stt"
        /\ Len(progressLog[j]) > 2

\* the error texts the stage a run stopped in can have raised
StageErrorTexts(job_id) ==
    IF Len(calls[job_id]) = 1
    THEN DownloadErrors
    ELSE TranscribeErrors \cup {NoTextExtracted}

\* C4: when a run ended in the except branch and its record is still stored,
\* the record has status failed, progress 0, a message containing the error
\* text of the stage that raised, and no result; and no failed record has a
\* result.
C4_FailedRecord ==
    /\ \A j \in Keys(jobs) :
          run[j].pc = "end_except" =>
              /\ Stored(j).status = "failed"
              /\ Stored(j).progress = 0
              /\ \E e \in StageErrorTexts(j) : Contains(Stored(j).message, e)
              /\ Stored(j).result = None
    /\ \A j \in Keys(jobs) : Stored(j).status = "failed" => Stored(j).result = None

\* a stored record whose run failed in the download stage
C4_Witness ==
    \E j \in Keys(jobs) :
        /\ run[j].pc = "end_except"
        /\ Len(calls[j]) = 1
        /\ Stored(j).status = "failed"

ResultKeys == {"recipe", "video_info", "transcript", "timing"}

\* C5: a completed record has progress 100, step "done" and a result holding
\* recipe, video_info, transcript and timing; the same is true of what the
\* status and result endpoints hand to a reader.
C5_CompletedRecord ==
    /\ \A j \in Keys(jobs) :
          Stored(j).status = "completed" =>
              /\ Stored(j).progress = 100
              /\ Get(Stored(j), "step", NoneStr) = "done"
              /\ Stored(j).result # None
              /\ ResultKeys \subseteq DOMAIN Stored(j).result
    /\ (resp.op = "status" /\ resp.body.code = 200 /\ resp.body.status = "completed")
          => resp.body.progress = 100
    /\ (resp.op = "result" /\ resp.body.code = 200)
          => ResultKeys \subseteq DOMAIN resp.body.result

\* a reader polls a completed record
C5_Witness ==
    /\ resp.op = "status"
    /\ resp.body.code = 200
    /\ resp.body.status = "completed"

\* C6: the providers of one run are called in the order download, transcript,
\* parsing, each at most once: speech-to-text only right after download_video
\* returned, parse_recipe only right after transcribe_audio returned a
\* transcript of at least MIN_TRANSCRIPT_LENGTH characters.
C6_StageOrder ==
    \A j \in JobIds :
        \A i \in 1..Len(calls[j]) :
            LET ev == calls[j][i]
            IN  "call" \in DOMAIN ev =>
                    /\ ev.call = "download" => i = 1
                    /\ ev.call = "stt" =>
                           i = 3 /\ calls[j][i - 1] = [ret |-> "download"]
                    /\ ev.call = "parse" =>
                           /\ i = 5
                           /\ "ret" \in DOMAIN calls[j][i - 1]
                           /\ calls[j][i - 1].ret = "stt"
                           /\ calls[j][i - 1].transcript = ev.transcript
                           /\ ev.transcript.full_text >= 20

\* a run that got as far as calling parse_recipe
C6_Witness ==
    \E j \in JobIds :
        /\ Len(calls[j]) >= 5
        /\ calls[j][5].call = "parse"

\* C7: the progress values written to the record of a run that completed
\* start at 0, end at 100 and never decrease.
C7_ProgressMonotone ==
    \A j \in Keys(jobs) :
        Stored(j).status = "completed" =>
            /\ IsNonDecreasing(progressLog[j])
            /\ Head(progressLog[j]) = 0
            /\ progressLog[j][Len(progressLog[j])] = 100

\* a completed record with all eight progress values written
C7_Witness ==
    \E j \in Keys(jobs) :
        /\ Stored(j).status = "completed"
        /\ Len(progressLog[j]) = 8

\* C8: a removed record never comes back, and a step of a run whose record
\* has been removed leaves the store as it is; the run goes on to its end.
C8_RemovedStaysRemoved ==
    [][/\ \A j \in Created : j \notin Keys(jobs) => j \notin Keys(jobs')
       /\ \A j \in Created :
            (j \notin Keys(jobs) /\ run'[j] # run[j]) => jobs' = jobs
    ]_vars

\* a run whose record was removed while it was in flight (its directory was
\* created, and removed with the record), that wrote after the removal and
\* went on to the end of the try block
C8_Witness ==
    \E j \in lateWrites :
        /\ j \notin Keys(jobs)
        /\ j \notin dirs
        /\ run[j].pc = "end_try"

\* C9: the status endpoint answers 404 for an id that is not in the store
\* (never created, deleted, evicted or expired) and otherwise 200 with the
\* stored record's status, progress and message.
C9_StatusLookup ==
    resp.op = "status" =>
        IF resp.job_id \in Keys(jobs)
        THEN /\ resp.body.code = 200
             /\ resp.body.status = Stored(resp.job_id).status
             /\ resp.body.progress = Stored(resp.job_id).progress
             /\ resp.body.message = Stored(resp.job_id).message
        ELSE resp.body.code = 404

\* a reader polls the id of a record that was created and has been removed
C9_Witness ==
    /\ resp.op = "status"
    /\ resp.job_id \in Created
    /\ resp.job_id \notin Keys(jobs)
    /\ resp.body.code = 404

\* C10: the result endpoint answers 200 exactly when the record is stored and
\* completed, and then with its result; 404 when it is absent; 400 with the
\* failure message when failed; 400 when pending or processing.
C10_ResultOnlyWhenCompleted ==
    resp.op = "result" =>
        LET j == resp.job_id
        IN  /\ resp.body.code = 200 <=>
                   (j \in Keys(jobs) /\ Stored(j).status = "completed")
            /\ resp.body.code = 200 =>
                   (resp.body.result = Stored(j).result /\ resp.body.result # None)
            /\ j \notin Keys(jobs) => resp.body.code = 404
            /\ (j \in Keys(jobs) /\ Stored(j).status = "failed") =>
                   (resp.body.code = 400 /\ resp.body.detail = Stored(j).message)
            /\ (j \in Keys(jobs) /\ Stored(j).status \in {"pending", "processing"}) =>
                   resp.body.code = 400

\* the result of a record that is still processing is asked for and refused
C10_Witness ==
    /\ resp.op = "result"
    /\ resp.job_id \in Keys(jobs)
    /\ Stored(resp.job_id).status = "processing"
    /\ resp.body.code = 400

(***************************************************************************)
(* Cooking chat (routers/chat.py): the session store and the chat turn.    *)
(*                                                                         *)
(* The handlers are coroutines on one event loop.  The provider call of    *)
(* _call_chat_api is a blocking call without an await, so send_message     *)
(* runs from its first line to its return as one step; the only            *)
(* suspension point of the chat is the await of image.read() in            *)
(* send_message_with_image.  A Python str is the record [str |-> ..], a    *)
(* list the record [list |-> ..], base64 text is represented by its        *)
(* length and padding, bytes by their number.                              *)
(***************************************************************************)
MAX_HISTORY_MESSAGES == 6
MAX_IMAGE_SIZE_MB == 10
MAX_IMAGE_SIZE_BYTES == MAX_IMAGE_SIZE_MB * 1024 * 1024
SESSION_EXPIRY_SECONDS == 3600
API_MAX_RETRIES == 2

\* time.time(): the wall clock `now`, in seconds
SecondsPerHour == 3600
time_time == now * SecondsPerHour

\* values uuid4 can return
ChatSessionIds == {"s1", "s2"}
\* recipes a session is started from
ChatRecipes ==
    {[title |-> "stew", ingredients |-> <<"leek">>,
      steps |-> <<[instruction |-> "chop", tips |-> "thin"],
                  [instruction |-> "boil"]>>]}
Messages == {"how long"}
Str(x) == [str |-> x]
List(x) == [list |-> x]

\* base64.b64encode(contents).decode("utf-8")
b64encode(n) == [len |-> 4 * ((n + 2) \div 3), pad |-> (3 - (n % 3)) % 3]
\* base64.b64decode(text): the number of bytes
b64decode(text) == 3 * (text.len \div 4) - text.pad
\* truth value of an Optional[str]
Truthy(text) == text # None /\ text.len > 0

\* what one call of client.chat.completions.create does: a choice with
\* content, with empty content, with content None, no choices, or an error
ProviderOutcomes ==
    {"tip", "empty", "null", "no_choices",
     "RateLimitError", "APIConnectionError", "APIError", "Exception"}
\* what `raise APIError(msg, response=None, body=None)` raises: the APIError,
\* or the TypeError of a constructor that takes no such keyword
NoChoicesRaises == {"APIError", "TypeError"}

\* the provider's behaviour over the attempts of one call
Scripts(outcomes) == [1..(API_MAX_RETRIES + 1) -> outcomes]

(***************************************************************************)
(* Helpers of the chat router.                                             *)
(***************************************************************************)
\* session_id in cooking_sessions
Live(sessions, session_id) == session_id \in DOMAIN sessions

\* cooking_sessions.pop(session_id)
Pop(sessions, session_id) ==
    [sid \in (DOMAIN sessions) \ {session_id} |-> sessions[sid]]

\* history: the sessions `gone` have no last turn any more
Forget(turns, gone) == [sid \in (DOMAIN turns) \ gone |-> turns[sid]]

\* history: a turn answered with 200 was committed at time t
Committed(turns, response, t) ==
    IF response.code = 200
    THEN (response.request.session_id :> t) @@ turns
    ELSE turns

\* _validate_step_number: TRUE when it raises the 400
_validate_step_number(step_number, total_steps) ==
    step_number < 1 \/ step_number > total_steps

\* _validate_image_size: TRUE when it raises the 400
_validate_image_size_never(image_bytes) == FALSE

_validate_image_size(image_bytes) == image_bytes > MAX_IMAGE_SIZE_BYTES

_build_system_prompt(recipe, step, step_number, total_steps) ==
    [recipe_title |-> Get(recipe, "title", "dish"),
     step_number |-> step_number,
     instruction |-> Get(step, "instruction", ""),
     tips |-> Get(step, "tips", "none"),
     difficulty |-> Get(recipe, "difficulty", "normal"),
     total_steps |-> total_steps]

\* f"[Step {step_number} ...] {message}"
StepText(step_number, message) == [step |-> step_number, message |-> message]

_build_user_content(message, step_number, image_base64) ==
    (IF Truthy(image_base64)
     THEN <<[type |-> "image_url", url |-> image_base64]>>
     ELSE <<>>)
    \o <<[type |-> "text", text |-> StepText(step_number, message)]>>

\* _calculate_progress: int((completed / total) * 100)
_calculate_progress(completed, total) ==
    IF total <= 0 THEN 0 ELSE (completed * 100) \div total

\* the sessions _cleanup_expired_sessions removes at time t
expired_sessions(sessions, t) ==
    {sid \in DOMAIN sessions :
        t - Get(sessions[sid], "created_at", 0) > SESSION_EXPIRY_SECONDS}

_cleanup_expired_sessions_all(sessions, t) ==
    [sid \in {} |-> None]

_cleanup_expired_sessions(sessions, t) ==
    [sid \in (DOMAIN sessions) \ expired_sessions(sessions, t) |-> sessions[sid]]

(***************************************************************************)
(* _call_chat_api: the provider call with its retry loop.  `script` is     *)
(* what the provider does at each attempt, `ctor` what the raise of the    *)
(* no-choices branch raises.  The result carries the log of the attempts.  *)
(***************************************************************************)
IsResponse(outcome) == outcome \in {"tip", "empty", "null", "no_choices"}

\* response.choices[0].message.content or ""
ContentOrEmpty(outcome) == IF outcome = "tip" THEN "tip" ELSE ""

\* the exception an attempt ends with, NoneStr when it returns
Raised(outcome, ctor) ==
    IF outcome = "no_choices" THEN ctor
    ELSE IF IsResponse(outcome) THEN NoneStr
    ELSE outcome

\* the except clause that catches an exception of class `error`
ExceptClause(error) ==
    IF error = "RateLimitError" THEN "rate_limit"
    ELSE IF error = "APIConnectionError" THEN "connection"
    ELSE IF error = "APIError" THEN "api"
    ELSE "other"

\* the clauses that leave the loop with break
Breaks_onlyother(clause) == clause = "other"

Breaks(clause) == clause \in {"rate_limit", "other"}

RECURSIVE AttemptsFrom(_, _, _, _, _, _)
AttemptsFrom(messages, max_retries, script, ctor, attempt, log) ==
    IF attempt > max_retries
    THEN \* the for loop is exhausted
         [ok |-> FALSE, last_error |-> log[Len(log)].raised, log |-> log]
    ELSE LET outcome == script[attempt + 1]
             error == Raised(outcome, ctor)
             entry == [messages |-> messages, outcome |-> outcome, raised |-> error]
             log2 == Append(log, entry)
         IN  IF error = NoneStr
             THEN [ok |-> TRUE, reply |-> ContentOrEmpty(outcome), log |-> log2]
             ELSE IF Breaks(ExceptClause(error))
             THEN [ok |-> FALSE, last_error |-> error, log |-> log2]
             ELSE \* `continue` when attempt < max_retries, else the clause
                  \* ends and the loop tries to go on: the next iteration
                  AttemptsFrom(messages, max_retries, script, ctor, attempt + 1, log2)

_call_chat_api(messages, max_retries, script, ctor) ==
    AttemptsFrom(messages, max_retries, script, ctor, 0, <<>>)

\* detail of the HTTPException(500): str(last_error)[:100]
ChatApiFailedText(last_error) == <<"AI reply failed", last_error>>

(***************************************************************************)
(* Session endpoints.  Every response carries the request it answers.      *)
(***************************************************************************)
NotFound(op, request) ==
    [op |-> op, request |-> request, code |-> 404, detail |-> "no session"]

\* the session dict stored by start_cooking_session
NewSession(recipe, t) ==
    LET steps == Get(recipe, "steps", <<>>)
    IN  [recipe |-> recipe, current_step |-> 1, total_steps |-> Len(steps),
         steps |-> steps, completed_steps |-> <<>>, chat_history |-> <<>>,
         ingredients |-> Get(recipe, "ingredients", <<>>), created_at |-> t]

\* POST /start: sweep, then store a new session under a fresh uuid4
start_cooking_session(recipe, session_id) ==
    /\ session_id \in ChatSessionIds \ issued
    /\ issued' = issued \cup {session_id}
    /\ cooking_sessions' =
           (session_id :> NewSession(recipe, time_time))
               @@ _cleanup_expired_sessions(cooking_sessions, time_time)
    /\ chatResp' = [op |-> "start", request |-> [recipe |-> recipe], code |-> 200,
                    session_id |-> session_id,
                    total_steps |-> Len(Get(recipe, "steps", <<>>))]
    /\ sent' = <<>>
    /\ lastTurn' = Forget(lastTurn, expired_sessions(cooking_sessions, time_time))
    /\ UNCHANGED <<upload, now, jobVars>>

\* GET /session/{session_id}
get_session_status_response(sessions, session_id) ==
    IF ~Live(sessions, session_id)
    THEN NotFound("status", [session_id |-> session_id])
    ELSE LET session == sessions[session_id]
         IN  [op |-> "status", request |-> [session_id |-> session_id], code |-> 200,
              current_step |-> session.current_step,
              total_steps |-> session.total_steps,
              completed_steps |-> session.completed_steps,
              progress_percent |->
                  _calculate_progress(Len(session.completed_steps), session.total_steps)]

get_session_status(session_id) ==
    /\ chatResp' = get_session_status_response(cooking_sessions, session_id)
    /\ sent' = <<>>
    /\ UNCHANGED <<cooking_sessions, issued, upload, lastTurn, now, jobVars>>

InSeq(x, seq) == \E i \in 1..Len(seq) : seq[i] = x

\* GET /session/{session_id}/step/{step_number}
get_step_detail_response(sessions, session_id, step_number) ==
    LET request == [session_id |-> session_id, step_number |-> step_number]
    IN  IF ~Live(sessions, session_id) THEN NotFound("step", request)
        ELSE LET session == sessions[session_id]
                 steps == session.steps
             IN  IF _validate_step_number(step_number, Len(steps))
                 THEN [op |-> "step", request |-> request, code |-> 400,
                       detail |-> "bad step number"]
                 ELSE [op |-> "step", request |-> request, code |-> 200,
                       instruction |-> Get(steps[step_number], "instruction", ""),
                       is_completed |-> InSeq(step_number, session.completed_steps),
                       is_current |-> step_number = session.current_step]

get_step_detail(session_id, step_number) ==
    /\ chatResp' = get_step_detail_response(cooking_sessions, session_id, step_number)
    /\ sent' = <<>>
    /\ UNCHANGED <<cooking_sessions, issued, upload, lastTurn, now, jobVars>>

\* complete_step on the session dict: lines 289-293
CompleteStep(session, step_number) ==
    [session EXCEPT
        !.completed_steps =
            IF InSeq(step_number, @) THEN @ ELSE Append(@, step_number),
        !.current_step =
            IF step_number < session.total_steps THEN step_number + 1 ELSE @]

\* POST /session/{session_id}/complete-step/{step_number}
complete_step(session_id, step_number) ==
    LET request == [session_id |-> session_id, step_number |-> step_number]
    IN  /\ IF ~Live(cooking_sessions, session_id)
           THEN /\ chatResp' = NotFound("complete_step", request)
                /\ UNCHANGED cooking_sessions
           ELSE LET session == CompleteStep(cooking_sessions[session_id], step_number)
                IN  /\ cooking_sessions' =
                           [cooking_sessions EXCEPT ![session_id] = session]
                    /\ chatResp' =
                           [op |-> "complete_step", request |-> request, code |-> 200,
                            next_step |-> session.current_step,
                            is_finished |->
                                Len(session.completed_steps) = session.total_steps]
        /\ sent' = <<>>
        /\ UNCHANGED <<issued, upload, lastTurn, now, jobVars>>

(***************************************************************************)
(* The chat turn: send_message.                                            *)
(***************************************************************************)

\* seq[-n:]
LastN_whole(seq, n) == seq

LastN(seq, n) == SubSeq(seq, IF Len(seq) > n THEN Len(seq) - n + 1 ELSE 1, Len(seq))

\* the message list of a turn: lines 325-351
BuildMessages(session, request) ==
    LET steps == session.steps
        step_number == request.step_number
        system_prompt ==
            _build_system_prompt(session.recipe, steps[step_number],
                                 step_number, Len(steps))
        window == LastN(session.chat_history, MAX_HISTORY_MESSAGES)
        user_content ==
            _build_user_content(request.message, step_number, request.image_base64)
    IN  <<[role |-> "system", content |-> Str(system_prompt)]>>
        \o [i \in 1..Len(window) |->
               [role |-> window[i].role, content |-> window[i].content]]
        \o <<[role |-> "user", content |-> List(user_content)]>>

\* the user entry appended to chat_history: lines 357-371
UserEntry(request) ==
    IF Truthy(request.image_base64)
    THEN [role |-> "user",
          content |-> List(_build_user_content(request.message, request.step_number,
                                               request.image_base64)),
          step_number |-> request.step_number, has_image |-> TRUE]
    ELSE [role |-> "user",
          content |-> Str(StepText(request.step_number, request.message)),
          step_number |-> request.step_number, has_image |-> FALSE]

\* the session after a turn whose provider call returned: lines 356-382
CommitTurn_keeptime(session, request, reply, t) ==
    [session EXCEPT
        !.chat_history =
            @ \o <<UserEntry(request),
                   [role |-> "assistant", content |-> Str(reply),
                    step_number |-> request.step_number]>>,
        !.current_step = request.step_number]

CommitTurn(session, request, reply, t) ==
    [session EXCEPT
        !.chat_history =
            @ \o <<UserEntry(request),
                   [role |-> "assistant", content |-> Str(reply),
                    step_number |-> request.step_number]>>,
        !.current_step = request.step_number,
        !.created_at = t]

\* the session after a turn whose provider call raised: the HTTPException
\* leaves send_message at line 354, before the first append
AbortTurn_userkept(session, request) ==
    [session EXCEPT !.chat_history = Append(@, UserEntry(request))]

AbortTurn(session, request) == session

\* send_message on the store `sessions` at time t: the new store, the
\* response and the provider attempts
SendMessage(sessions, request, script, ctor, t) ==
    LET Reject(code, detail) ==
            [sessions |-> sessions, sent |-> <<>>,
             resp |-> [op |-> "message", request |-> request,
                       code |-> code, detail |-> detail]]
    IN  IF /\ Truthy(request.image_base64)
           /\ _validate_image_size(b64decode(request.image_base64))
        THEN Reject(400, "image too large")
        ELSE IF ~Live(sessions, request.session_id)
        THEN Reject(404, "no session")
        ELSE LET session == sessions[request.session_id]
                 steps == session.steps
                 step_number == request.step_number
             IN  IF _validate_step_number(step_number, Len(steps))
                 THEN Reject(400, "bad step number")
                 ELSE LET messages == BuildMessages(session, request)
                          r == _call_chat_api(messages, API_MAX_RETRIES, script, ctor)
                      IN  IF ~r.ok
                          THEN [sessions |->
                                    [sessions EXCEPT ![request.session_id] =
                                        AbortTurn(session, request)],
                                sent |-> r.log,
                                resp |-> [op |-> "message", request |-> request,
                                          code |-> 500,
                                          detail |-> ChatApiFailedText(r.last_error)]]
                          ELSE LET after == CommitTurn(session, request, r.reply, t)
                               IN  [sessions |->
                                        [sessions EXCEPT ![request.session_id] = after],
                                    sent |-> r.log,
                                    resp |->
                                        [op |-> "message", request |-> request,
                                         code |-> 200, reply |-> r.reply,
                                         step_info |->
                                            [step_number |-> step_number,
                                             instruction |->
                                                Get(steps[step_number], "instruction", ""),
                                             is_completed |->
                                                InSeq(step_number, after.completed_steps)],
                                         session_status |->
                                            [current_step |-> after.current_step,
                                             completed_steps |-> after.completed_steps,
                                             progress_percent |->
                                                _calculate_progress(
                                                    Len(after.completed_steps),
                                                    after.total_steps)]]]

\* POST /message
send_message(request, script, ctor) ==
    LET r == SendMessage(cooking_sessions, request, script, ctor, time_time)
    IN  /\ cooking_sessions' = r.sessions
        /\ chatResp' = r.resp
        /\ sent' = r.sent
        /\ lastTurn' = Committed(lastTurn, r.resp, time_time)
        /\ UNCHANGED <<issued, upload, now, jobVars>>

\* the ChatRequest built at lines 423-428
ChatRequest(session_id, step_number, message, image_base64) ==
    [session_id |-> session_id, step_number |-> step_number,
     message |-> message, image_base64 |-> image_base64]

\* POST /message-with-image, up to the await of image.read(); without a
\* file there is no await and the turn runs at once
send_message_with_image(session_id, step_number, message, image, script, ctor) ==
    IF image = None
    THEN send_message(ChatRequest(session_id, step_number, message, None), script, ctor)
    ELSE /\ upload = None
         /\ upload' = [session_id |-> session_id, step_number |-> step_number,
                       message |-> message, image |-> image]
         /\ chatResp' = NoResp
         /\ sent' = <<>>
         /\ UNCHANGED <<cooking_sessions, issued, lastTurn, now, jobVars>>

\* image.read() returns: the size check, the encoding and send_message
image_read_returns(script, ctor) ==
    /\ upload # None
    /\ upload' = None
    /\ LET contents == upload.image.size
           request == ChatRequest(upload.session_id, upload.step_number,
                                  upload.message, b64encode(contents))
       IN  IF _validate_image_size(contents)
           THEN /\ chatResp' = [op |-> "message", request |-> request, code |-> 400,
                                detail |-> "image too large"]
                /\ sent' = <<>>
                /\ UNCHANGED <<cooking_sessions, lastTurn>>
           ELSE LET r == SendMessage(cooking_sessions, request, script, ctor, time_time)
                IN  /\ cooking_sessions' = r.sessions
                    /\ chatResp' = r.resp
                    /\ sent' = r.sent
                    /\ lastTurn' = Committed(lastTurn, r.resp, time_time)
    /\ UNCHANGED <<issued, now, jobVars>>

\* GET /session/{session_id}/history
get_chat_history_response(sessions, session_id) ==
    IF ~Live(sessions, session_id)
    THEN NotFound("history", [session_id |-> session_id])
    ELSE [op |-> "history", request |-> [session_id |-> session_id], code |-> 200,
          messages |-> sessions[session_id].chat_history]

get_chat_history(session_id) ==
    /\ chatResp' = get_chat_history_response(cooking_sessions, session_id)
    /\ sent' = <<>>
    /\ UNCHANGED <<cooking_sessions, issued, upload, lastTurn, now, jobVars>>

\* the summary of end_session, read from the popped session dict
EndSummary(session) ==
    [recipe |-> Get(session.recipe, "title", ""),
     completed_steps |-> Len(session.completed_steps),
     total_steps |-> session.total_steps,
     total_messages |-> Len(session.chat_history)]

\* DELETE /session/{session_id}
end_session_keeps(sessions, session_id) == sessions

end_session_store(sessions, session_id) == Pop(sessions, session_id)

end_session(session_id) ==
    LET request == [session_id |-> session_id]
    IN  /\ IF ~Live(cooking_sessions, session_id)
           THEN /\ chatResp' = NotFound("end", request)
                /\ UNCHANGED <<cooking_sessions, lastTurn>>
           ELSE LET session == cooking_sessions[session_id]
                IN  /\ cooking_sessions' = end_session_store(cooking_sessions, session_id)
                    /\ chatResp' = [op |-> "end", request |-> request, code |-> 200,
                                    summary |-> EndSummary(session)]
                    /\ lastTurn' = Pop(lastTurn, session_id)
        /\ sent' = <<>>
        /\ UNCHANGED <<issued, upload, now, jobVars>>

\* the wall clock advances; the chat store is not touched
ChatTick ==
    /\ Tick
    /\ chatResp' = NoResp
    /\ sent' = <<>>
    /\ UNCHANGED <<cooking_sessions, issued, upload, lastTurn, lockVars, testVars>>

(***************************************************************************)
(* The chat service.                                                       *)
(***************************************************************************)
\* how many chat turns and completed steps the store holds, over all its
\* sessions, before a further turn or step completion is left out
MaxStored == 3

\* the order in which uuid4 hands out the session ids (they are interchangeable)
Uuid4Order == <<"s1", "s2">>

RECURSIVE StoredIn(_, _)
StoredIn(sessions, sids) ==
    IF sids = {} THEN 0
    ELSE LET sid == CHOOSE x \in sids : TRUE
         IN  Len(sessions[sid].chat_history) \div 2
                 + Len(sessions[sid].completed_steps)
                 + StoredIn(sessions, sids \ {sid})

\* the store has room, within the bound of the model
Room == StoredIn(cooking_sessions, DOMAIN cooking_sessions) < MaxStored

OkImage == b64encode(MAX_IMAGE_SIZE_BYTES)
BigImage == b64encode(MAX_IMAGE_SIZE_BYTES + 1)
Always(outcome) == [attempt \in 1..(API_MAX_RETRIES + 1) |-> outcome]

\* the turns of the chat service: step number, image and what the provider
\* does at every attempt.  Two turns that succeed, one whose provider is
\* unreachable, and turns with a step number or an image out of range
ChatTurns ==
    {[step_number |-> 1, image_base64 |-> None, outcome |-> "tip"],
     [step_number |-> 2, image_base64 |-> OkImage, outcome |-> "tip"],
     [step_number |-> 1, image_base64 |-> None, outcome |-> "APIConnectionError"],
     [step_number |-> 0, image_base64 |-> None, outcome |-> "tip"],
     [step_number |-> 3, image_base64 |-> None, outcome |-> "tip"],
     [step_number |-> 1, image_base64 |-> BigImage, outcome |-> "tip"]}
\* the multipart turns: for step 1 of the first session, with a file
ChatUploads == {[size |-> MAX_IMAGE_SIZE_BYTES], [size |-> MAX_IMAGE_SIZE_BYTES + 1]}
\* step numbers of complete-step and step-detail requests
CompleteSteps == 1..3
DetailSteps == {1, 3}

StartSession ==
    /\ Cardinality(issued) < Len(Uuid4Order)
    /\ \E recipe \in ChatRecipes :
           start_cooking_session(recipe, Uuid4Order[Cardinality(issued) + 1])

NextChat ==
    \/ StartSession
    \/ \E session_id \in ChatSessionIds : get_session_status(session_id)
    \/ \E session_id \in ChatSessionIds : \E step_number \in DetailSteps :
           get_step_detail(session_id, step_number)
    \/ \E session_id \in ChatSessionIds : \E step_number \in CompleteSteps :
           Room /\ complete_step(session_id, step_number)
    \/ \E session_id \in ChatSessionIds : \E turn \in ChatTurns : \E message \in Messages :
           /\ Room
           /\ send_message(ChatRequest(session_id, turn.step_number, message,
                                       turn.image_base64),
                           Always(turn.outcome), "APIError")
    \/ \E image \in ChatUploads : \E message \in Messages :
           /\ Room
           /\ send_message_with_image(Uuid4Order[1], 1, message, image,
                                      Always("tip"), "APIError")
    \/ \E outcome \in {"tip", "APIConnectionError"} :
           /\ Room
           /\ image_read_returns(Always(outcome), "APIError")
    \/ \E session_id \in ChatSessionIds : get_chat_history(session_id)
    \/ \E session_id \in ChatSessionIds : end_session(session_id)

SpecChat == Init /\ [][NextChat]_vars

(***************************************************************************)
(* The chat service under the wall clock: the operations that write the    *)
(* store, and the clock.                                                   *)
(***************************************************************************)
\* the multipart turns while the clock runs: a file within the size cap,
\* answered by the provider once it is read
ClockUploads == {[size |-> MAX_IMAGE_SIZE_BYTES]}

NextClock ==
    \/ ChatTick
    \/ StartSession
    \/ \E session_id \in ChatSessionIds : Room /\ complete_step(session_id, 1)
    \/ \E session_id \in ChatSessionIds : \E turn \in ChatTurns : \E message \in Messages :
           /\ Room
           /\ send_message(ChatRequest(session_id, turn.step_number, message,
                                       turn.image_base64),
                           Always(turn.outcome), "APIError")
    \/ \E image \in ClockUploads : \E message \in Messages :
           /\ Room
           /\ send_message_with_image(Uuid4Order[1], 1, message, image,
                                      Always("tip"), "APIError")
    \/ Room /\ image_read_returns(Always("tip"), "APIError")
    \/ \E session_id \in ChatSessionIds : end_session(session_id)

SpecClock == Init /\ [][NextClock]_vars

(***************************************************************************)
(* Properties of the chat.                                                 *)
(***************************************************************************)
\* the response of the last step answers a chat turn
IsTurn(response) == response.op = "message"

\* the response of the last step is a complete-step answered with 200
IsCompleted(response) == response.op = "complete_step" /\ response.code = 200

AllStepsIn(session) ==
    \A k \in 1..session.total_steps : InSeq(k, session.completed_steps)

\* C11: in every session 1 <= current_step <= total_steps, every element of
\* completed_steps lies in 1..total_steps, and total_steps is the number of
\* steps of the recipe the session was created from.
C11_StepsWithinRange ==
    \A sid \in DOMAIN cooking_sessions :
        LET session == cooking_sessions[sid]
        IN  /\ 1 <= session.current_step
            /\ session.current_step <= session.total_steps
            /\ \A i \in 1..Len(session.completed_steps) :
                   session.completed_steps[i] \in 1..session.total_steps
            /\ session.total_steps = Len(session.recipe.steps)

\* C12: a complete-step of a step that is already in completed_steps leaves
\* completed_steps and current_step of the session as they were.
C12_CompleteStepIdempotent ==
    [][\A sid \in DOMAIN cooking_sessions :
           (/\ IsCompleted(chatResp')
            /\ chatResp'.request.session_id = sid
            /\ InSeq(chatResp'.request.step_number,
                     cooking_sessions[sid].completed_steps))
           => /\ cooking_sessions'[sid].completed_steps
                     = cooking_sessions[sid].completed_steps
              /\ cooking_sessions'[sid].current_step
                     = cooking_sessions[sid].current_step]_vars

\* C13: complete-step answers is_finished = TRUE exactly when every step
\* 1..total_steps is in completed_steps after the call, and completing the
\* last step leaves current_step where it was.
C13_FinishedIffAllSteps ==
    [][\A sid \in DOMAIN cooking_sessions :
           (IsCompleted(chatResp') /\ chatResp'.request.session_id = sid)
           => /\ chatResp'.is_finished <=> AllStepsIn(cooking_sessions'[sid])
              /\ chatResp'.request.step_number = cooking_sessions[sid].total_steps
                     => cooking_sessions'[sid].current_step
                            = cooking_sessions[sid].current_step]_vars

\* the request names no stored session, a step number outside
\* 1..total_steps, or an image above the size cap
InvalidTurn(sessions, request) ==
    \/ request.session_id \notin DOMAIN sessions
    \/ /\ request.session_id \in DOMAIN sessions
       /\ \/ request.step_number < 1
          \/ request.step_number > sessions[request.session_id].total_steps
    \/ /\ Truthy(request.image_base64)
       /\ b64decode(request.image_base64) > MAX_IMAGE_SIZE_MB * 1024 * 1024

\* C14: a chat turn with an unknown session id, a step number outside
\* 1..total_steps or an image above the size cap is answered with an error,
\* makes no provider call and leaves the whole store as it was.
C14_InvalidTurnRejected ==
    [][(IsTurn(chatResp') /\ InvalidTurn(cooking_sessions, chatResp'.request))
           => /\ chatResp'.code \in {400, 404}
              /\ sent' = <<>>
              /\ cooking_sessions' = cooking_sessions]_vars

\* an invalid turn was rejected while a session with history, last written
\* before the current time, was stored
C14_Witness ==
    /\ IsTurn(chatResp)
    /\ InvalidTurn(cooking_sessions, chatResp.request)
    /\ chatResp.code = 400
    /\ chatResp.detail = "image too large"
    /\ \E sid \in DOMAIN cooking_sessions :
           /\ cooking_sessions[sid].chat_history # <<>>
           /\ cooking_sessions[sid].created_at < time_time

\* every chat_history is a sequence of pairs: a user turn, then the
\* assistant reply to it
PairsOnly(sessions) ==
    \A sid \in DOMAIN sessions :
        LET h == sessions[sid].chat_history
        IN  /\ Len(h) % 2 = 0
            /\ \A i \in 1..Len(h) :
                   i % 2 = 1 => /\ h[i].role = "user"
                                /\ h[i + 1].role = "assistant"
                                /\ h[i + 1].step_number = h[i].step_number

\* the last provider attempt of the step ended with an exception
ProviderFailed(log) == log # <<>> /\ log[Len(log)].raised # NoneStr

\* C15: a chat turn whose provider call fails is answered with the 500 and
\* leaves the whole store (chat_history, current_step, completed_steps,
\* created_at) as it was; no state holds a user turn without its reply.
C15_TurnAllOrNothing ==
    [][/\ (IsTurn(chatResp') /\ ProviderFailed(sent'))
              => /\ chatResp'.code = 500
                 /\ cooking_sessions' = cooking_sessions
       /\ PairsOnly(cooking_sessions')]_vars

\* the provider failed at all three attempts of a turn for a session with
\* history whose timestamp is older than the current time
C15_Witness ==
    /\ IsTurn(chatResp)
    /\ chatResp.code = 500
    /\ Len(sent) = API_MAX_RETRIES + 1
    /\ chatResp.request.session_id \in DOMAIN cooking_sessions
    /\ LET session == cooking_sessions[chatResp.request.session_id]
       IN  /\ session.chat_history # <<>>
           /\ session.created_at < time_time

(***************************************************************************)
(* The provider call under every behaviour of the provider: turns for      *)
(* step 1 of the first session, the provider doing anything at each        *)
(* attempt.                                                                *)
(***************************************************************************)
\* what the provider does at an attempt: a reply, no choices, or an error
RetryOutcomes == ProviderOutcomes \ {"empty", "null"}

NextRetry ==
    \/ StartSession
    \/ \E message \in Messages :
       \E script \in Scripts(RetryOutcomes) : \E ctor \in NoChoicesRaises :
           /\ Room
           /\ send_message(ChatRequest(Uuid4Order[1], 1, message, None), script, ctor)

SpecRetry == Init /\ [][NextRetry]_vars

ApiErrors == {"APIConnectionError", "APIError"}

\* the attempts of the last step all carry the same message list
SameMessages(log) == \A i \in 1..Len(log) : log[i].messages = log[1].messages

\* C16 as claimed: an attempt at which the provider raises a rate-limit
\* error, or any error other than a connection error, is the last one
\* (outcome = raised: the provider raised it); a connection error
\* is retried, with at most API_MAX_RETRIES + 1 attempts in total; every
\* attempt sends the same message list.
C16_RetryOnlyConnection ==
    /\ Len(sent) <= API_MAX_RETRIES + 1
    /\ SameMessages(sent)
    /\ \A i \in 1..Len(sent) :
           /\ (/\ sent[i].outcome = sent[i].raised
               /\ sent[i].raised # "APIConnectionError") => i = Len(sent)
           /\ (sent[i].raised = "APIConnectionError" /\ i <= API_MAX_RETRIES)
                  => i < Len(sent)

\* C16 amended: an attempt that ends with a rate-limit error, or with an
\* error that is no API error, is the last one; a connection error and any
\* other API error are retried, with at most API_MAX_RETRIES + 1 attempts in
\* total; every attempt sends the same message list.
C16_RetryApiErrors ==
    /\ Len(sent) <= API_MAX_RETRIES + 1
    /\ SameMessages(sent)
    /\ \A i \in 1..Len(sent) :
           /\ sent[i].raised \notin ({NoneStr} \cup ApiErrors) => i = Len(sent)
           /\ (sent[i].raised \in ApiErrors /\ i <= API_MAX_RETRIES) => i < Len(sent)
           /\ sent[i].raised = NoneStr => i = Len(sent)

\* a turn failed after a connection error, a generic API error and a
\* rate-limit error, in this order
C16_Witness ==
    /\ IsTurn(chatResp)
    /\ chatResp.code = 500
    /\ Len(sent) = 3
    /\ sent[1].raised = "APIConnectionError"
    /\ sent[2].raised = "APIError"
    /\ sent[3].raised = "RateLimitError"

(***************************************************************************)
(* Long conversations: turns of the first session until its history is     *)
(* longer than the window of the model input.                              *)
(***************************************************************************)
\* how many turns the chat_history holds before the last turn made
MaxWindowTurns == 4

WindowTurns == {turn \in ChatTurns : turn.step_number \in 1..2 /\ turn.image_base64 # BigImage}

NextWindow ==
    \/ StartSession
    \/ \E turn \in WindowTurns : \E message \in Messages :
           /\ Live(cooking_sessions, Uuid4Order[1])
           /\ Len(cooking_sessions[Uuid4Order[1]].chat_history) <= 2 * MaxWindowTurns
           /\ send_message(ChatRequest(Uuid4Order[1], turn.step_number, message,
                                       turn.image_base64),
                           Always(turn.outcome), "APIError")

SpecWindow == Init /\ [][NextWindow]_vars

Min(a, b) == IF a < b THEN a ELSE b

\* C17: the message list a chat turn sends is the system prompt, then the last
\* MAX_HISTORY_MESSAGES entries of the chat_history (all of them when there
\* are fewer) as role and content in their stored order, then the new user
\* turn; it never carries more than 6 earlier entries.
C17_WindowOfHistory ==
    [][(IsTurn(chatResp') /\ sent' # <<>>)
           => LET request == chatResp'.request
                  h == cooking_sessions[request.session_id].chat_history
                  messages == sent'[1].messages
                  k == Len(messages) - 2
              IN  /\ k = Min(Len(h), 6)
                  /\ messages[1].role = "system"
                  /\ \A i \in 1..k :
                         messages[1 + i] = [role |-> h[Len(h) - k + i].role,
                                            content |-> h[Len(h) - k + i].content]
                  /\ messages[Len(messages)].role = "user"
                  /\ messages[Len(messages)].content
                         = List(_build_user_content(request.message, request.step_number,
                                                    request.image_base64))]_vars

\* a turn was committed on a history of more than six entries: the message
\* list carried six of them
C17_Witness ==
    /\ IsTurn(chatResp)
    /\ chatResp.code = 200
    /\ Len(cooking_sessions[chatResp.request.session_id].chat_history) > 6 + 2
    /\ Len(sent[1].messages) = 6 + 2

\* C18: a chat turn answered with 200 for step k appends exactly two entries
\* to the chat_history of its session, the user turn and then the assistant
\* reply, both tagged with step k, the user turn with has_image exactly when
\* the request carried an image; it sets current_step to k and created_at to
\* the current time, and leaves completed_steps, total_steps and every other
\* session as they were.
C18_TurnCommits ==
    [][(IsTurn(chatResp') /\ chatResp'.code = 200)
           => LET request == chatResp'.request
                  sid == request.session_id
                  k == request.step_number
                  before == cooking_sessions[sid]
                  after == cooking_sessions'[sid]
                  h == before.chat_history
                  h2 == after.chat_history
              IN  /\ DOMAIN cooking_sessions' = DOMAIN cooking_sessions
                  /\ Len(h2) = Len(h) + 2
                  /\ SubSeq(h2, 1, Len(h)) = h
                  /\ h2[Len(h) + 1].role = "user"
                  /\ h2[Len(h) + 1].step_number = k
                  /\ h2[Len(h) + 1].has_image <=> Truthy(request.image_base64)
                  /\ h2[Len(h) + 2].role = "assistant"
                  /\ h2[Len(h) + 2].step_number = k
                  /\ h2[Len(h) + 2].content = Str(chatResp'.reply)
                  /\ after.current_step = k
                  /\ after.created_at = now' * 3600
                  /\ after.completed_steps = before.completed_steps
                  /\ after.total_steps = before.total_steps
                  /\ \A other \in (DOMAIN cooking_sessions) \ {sid} :
                         cooking_sessions'[other] = cooking_sessions[other]]_vars

\* a turn with an image was committed, after the session's creation time,
\* on a session with history and a completed step, next to another session
C18_Witness ==
    /\ IsTurn(chatResp)
    /\ chatResp.code = 200
    /\ Truthy(chatResp.request.image_base64)
    /\ Cardinality(DOMAIN cooking_sessions) = 2
    /\ LET session == cooking_sessions[chatResp.request.session_id]
       IN  /\ Len(session.chat_history) = 4
           /\ session.completed_steps # <<>>
           /\ session.created_at > 0

\* session ids that were handed out and are no longer stored
Ended == issued \ DOMAIN cooking_sessions

\* the response of the step answers an operation on a session id
OnSession(response) ==
    response.op \in {"status", "step", "complete_step", "message", "history", "end"}

\* end_session on a stored session answers 200 with the counts of the
\* session before the call and removes it, leaving the other sessions
EndReturnsSummary ==
    (chatResp'.op = "end" /\ chatResp'.request.session_id \in DOMAIN cooking_sessions)
        => LET sid == chatResp'.request.session_id
               session == cooking_sessions[sid]
           IN  /\ chatResp'.code = 200
               /\ chatResp'.summary.completed_steps = Len(session.completed_steps)
               /\ chatResp'.summary.total_steps = session.total_steps
               /\ chatResp'.summary.total_messages = Len(session.chat_history)
               /\ sid \notin DOMAIN cooking_sessions'
               /\ \A other \in (DOMAIN cooking_sessions) \ {sid} :
                      /\ other \in DOMAIN cooking_sessions'
                      /\ cooking_sessions'[other] = cooking_sessions[other]

\* a session id that is no longer stored is not stored after the step
NeverReappears == \A sid \in Ended : sid \notin DOMAIN cooking_sessions'

Age(timestamp) == now * 3600 - timestamp

RunOver(pc) == pc \in {"end_try", "end_except"}

InFlight == {j \in JobIds : run[j].pc \in {"download", "stt", "parsing"}}

process_video_runs(job_id) ==
    /\ Cardinality(InFlight) < MaxRuns
    /\ process_video_begin(job_id)
    /\ UNCHANGED <<chatVars, lockVars, testVars>>

download_video_answers(job_id) ==
    \E outcome \in DownloadOutcomes :
        download_returns(job_id, outcome) /\ UNCHANGED <<chatVars, lockVars, testVars>>

transcribe_audio_answers(job_id) ==
    \E outcome \in TranscribeOutcomes :
        transcribe_returns(job_id, outcome) /\ UNCHANGED <<chatVars, lockVars, testVars>>

parse_recipe_answers(job_id) ==
    \E recipe \in Recipes : parse_returns(job_id, recipe) /\ UNCHANGED <<chatVars, lockVars, testVars>>

NextLive ==
    \/ \E url \in Urls : analyze_video(url) /\ UNCHANGED <<chatVars, lockVars, testVars>>
    \/ \E job_id \in JobIds : delete_job_endpoint(job_id) /\ UNCHANGED <<chatVars, lockVars, testVars>>
    \/ \E job_id \in JobIds : process_video_runs(job_id)
    \/ \E job_id \in JobIds : download_video_answers(job_id)
    \/ \E job_id \in JobIds : transcribe_audio_answers(job_id)
    \/ \E job_id \in JobIds : parse_recipe_answers(job_id)

FairRuns ==
    \A job_id \in JobIds :
        /\ WF_vars(process_video_runs(job_id))
        /\ WF_vars(download_video_answers(job_id))
        /\ WF_vars(transcribe_audio_answers(job_id))
        /\ WF_vars(parse_recipe_answers(job_id))

SpecLive == Init /\ [][NextLive]_vars /\ FairRuns

IsFinal(job_id) ==
    job_id \in Keys(jobs) => Stored(job_id).status \in {"completed", "failed"}

PARSE_MAX_RETRIES == 2
\* MIN_TRANSCRIPT_LENGTH as recipe_parser imports it from the configuration
PARSER_MIN_TRANSCRIPT_LENGTH == 20

\* what one pass through the try body of parse_recipe does: _call_gpt_api and
\* _validate_recipe_data give a recipe, or one of them raises
ParseOutcomes ==
    {"recipe", "JSONDecodeError", "RecipeParseError", "RateLimitError",
     "APIConnectionError", "APIError", "Exception"}

\* the behaviour of the language model over the attempts of one call
ParseScripts == [1..(PARSE_MAX_RETRIES + 1) -> ParseOutcomes]

\* the except clause of parse_recipe that an error reaches, in clause order
ParseClause(error) ==
    CASE error = "JSONDecodeError" -> "json"
      [] error = "RateLimitError" -> "rate_limit"
      [] error = "APIConnectionError" -> "connection"
      [] error = "APIError" -> "api"
      [] error = "RecipeParseError" -> "parse"
      [] OTHER -> "other"

ParseCaught_noother(clause) ==
    clause \in {"json", "rate_limit", "connection", "api", "parse"}

\* the clauses of the try statement: the last one is `except Exception`
ParseCaught(clause) ==
    clause \in {"json", "rate_limit", "connection", "api", "parse", "other"}

\* the clauses that end in break
ParseBreaks(clause) == clause \in {"rate_limit", "api"}

\* the for loop of parse_recipe from `attempt` (counted from 1) on: the
\* recipe it returns or the error that escapes it, and the attempts made
RECURSIVE ParseAttemptsFrom(_, _, _, _)
ParseAttemptsFrom(script, max_retries, attempt, log) ==
    IF attempt > max_retries + 1
    THEN [raised |-> FALSE, recipe |-> "placeholder", log |-> log]
    ELSE LET outcome == script[attempt]
             log1 == Append(log, [attempt |-> attempt, outcome |-> outcome])
         IN  IF outcome = "recipe"
             THEN [raised |-> FALSE, recipe |-> "validated", log |-> log1]
             ELSE IF ~ParseCaught(ParseClause(outcome))
             THEN [raised |-> TRUE, error |-> outcome, log |-> log1]
             ELSE IF ParseBreaks(ParseClause(outcome))
             THEN [raised |-> FALSE, recipe |-> "placeholder", log |-> log1]
             ELSE ParseAttemptsFrom(script, max_retries, attempt + 1, log1)

\* parse_recipe: the placeholder at once for a text that is too short, else
\* the loop of attempts
parse_recipe(transcript_data, max_retries, script) ==
    IF Get(transcript_data, "full_text", 0) < PARSER_MIN_TRANSCRIPT_LENGTH
    THEN [raised |-> FALSE, recipe |-> "placeholder", log |-> <<>>]
    ELSE ParseAttemptsFrom(script, max_retries, 1, <<>>)

\* the Exception raised by _step_parse_recipe on RecipeParseError
ParseFailedText(e) == <<"recipe analysis failed: ">> \o e

\* await parse_recipe(transcript) is over: _step_parse_recipe and the rest
\* of process_video
parse_recipe_returns(job_id, script) ==
    /\ run[job_id].pc = "parsing"
    /\ LET r == parse_recipe(run[job_id].transcript, PARSE_MAX_RETRIES, script)
       IN  IF r.raised
           THEN IF r.error = "RecipeParseError"
                THEN Fail(job_id, ParseFailedText(<<r.error>>))
                ELSE Fail(job_id, <<r.error>>)
           ELSE parse_done(job_id, r.recipe, r.log \o <<[ret |-> "parse"]>>)

\* the first job meets every behaviour of the language model, the later
\* ones a model that answers with a recipe
ScriptsFor(job_id) ==
    IF job_id = 1 THEN ParseScripts
    ELSE {[attempt \in 1..(PARSE_MAX_RETRIES + 1) |-> "recipe"]}

NextParse ==
    \/ \E url \in Urls : analyze_video(url) /\ UNCHANGED <<chatVars, lockVars, testVars>>
    \/ \E job_id \in JobIds : process_video_start(job_id) /\ UNCHANGED <<chatVars, lockVars, testVars>>
    \/ \E job_id \in JobIds : \E outcome \in DownloadOutcomes :
           download_returns(job_id, outcome) /\ UNCHANGED <<chatVars, lockVars, testVars>>
    \/ \E job_id \in JobIds : \E outcome \in TranscribeOutcomes :
           transcribe_returns(job_id, outcome) /\ UNCHANGED <<chatVars, lockVars, testVars>>
    \/ \E job_id \in JobIds : \E script \in ScriptsFor(job_id) :
           parse_recipe_returns(job_id, script) /\ UNCHANGED <<chatVars, lockVars, testVars>>

SpecParse == Init /\ [][NextParse]_vars

\* the attempts of parse_recipe in the provider history of a run
ParseAttempts(job_id) ==
    SelectSeq(calls[job_id], LAMBDA ev : "attempt" \in DOMAIN ev)

\* C23: whatever the language model does at each attempt, parse_recipe makes
\* at most max_retries + 1 = 3 attempts and returns: the validated recipe if
\* its last attempt gave one, else the placeholder; the run then ends at the
\* end of its try block and its record, if stored, is completed with that
\* recipe.  A record whose run called parse_recipe is never failed.
C23_ParserNeverRaises ==
    [][\A j \in JobIds :
          /\ (run[j].pc = "parsing" /\ run'[j].pc # "parsing") =>
                LET made == ParseAttempts(j)'
                    last == made[Len(made)].outcome
                IN  /\ run'[j].pc = "end_try"
                    /\ 1 <= Len(made) /\ Len(made) <= 3
                    /\ \A i \in 1..(Len(made) - 1) :
                           made[i].outcome \notin {"recipe", "RateLimitError", "APIError"}
                    /\ Len(made) < 3 => last \in {"recipe", "RateLimitError", "APIError"}
                    /\ j \in Keys(jobs) =>
                           /\ StoredNext(j).status = "completed"
                           /\ StoredNext(j).result.recipe =
                                  IF last = "recipe" THEN "validated" ELSE "placeholder"
          /\ (j \in Keys(jobs') /\ run'[j].pc \in {"parsing", "end_try"})
                => StoredNext(j).status # "failed"
    ]_vars

\* the language model failed three times in different ways and the stored
\* record is completed with the placeholder
C23_Witness ==
    \E j \in Keys(jobs) :
        /\ run[j].pc = "end_try"
        /\ Len(ParseAttempts(j)) = 3
        /\ ParseAttempts(j)[1].outcome = "JSONDecodeError"
        /\ ParseAttempts(j)[2].outcome = "APIConnectionError"
        /\ ParseAttempts(j)[3].outcome = "Exception"
        /\ Stored(j).status = "completed"
        /\ Stored(j).result.recipe = "placeholder"

(***************************************************************************)
(* The Job Store on the event loop.  The handlers and process_video are    *)
(* coroutines of one event loop: a task runs from the point where the loop *)
(* resumes it to its next await or its return, and the JobManager methods  *)
(* it calls on the way contain no await.  JobManager._lock is created by   *)
(* __init__; no method and no caller acquires it.                          *)
(***************************************************************************)
\* the tasks that call create_job, delete_job or update_job
StoreTasks ==
    {[task |-> "analyze"]}
    \cup {[task |-> kind, job_id |-> j] : kind \in {"delete", "run"}, j \in JobIds}

\* what a task does from where the loop resumes it to its next await or return
StoreStretch(task) ==
    \/ /\ task.task = "analyze"
       /\ \E url \in {u \in Urls : extract_video_id(u) # NoneStr} : analyze_video(url)
    \/ /\ task.task = "delete"
       /\ task.job_id \in Keys(jobs)
       /\ delete_job_endpoint(task.job_id)
    \/ /\ task.task = "run"
       /\ \/ process_video_start(task.job_id)
          \/ \E outcome \in DownloadOutcomes : download_returns(task.job_id, outcome)
          \/ \E outcome \in TranscribeOutcomes : transcribe_returns(task.job_id, outcome)
          \/ \E recipe \in Recipes : parse_returns(task.job_id, recipe)

\* the task can run: its request has arrived, or the await it was suspended
\* at is done
Ready(task) == ENABLED StoreStretch(task)

\* the event loop, idle, resumes a task
loop_resumes(task) ==
    /\ loop_task = Idle
    /\ Ready(task)
    /\ loop_task' = task
    /\ UNCHANGED <<jobs, dirs, now, nextId, run, resp, calls, progressLog, sweep,
                   lateWrites, chatVars, testVars, _lock, inside>>

OnLoop_threadpool(task) == TRUE

\* code of a coroutine runs only while the event loop is running its task
OnLoop(task) == loop_task = task

\* the task calls into JobManager: create_job, update_job or delete_job
enters_store(task) ==
    /\ OnLoop(task)
    /\ Ready(task)
    /\ task \notin inside
    /\ inside' = inside \cup {task}
    /\ UNCHANGED <<jobs, dirs, now, nextId, run, resp, calls, progressLog, sweep,
                   lateWrites, chatVars, testVars, _lock, loop_task>>

\* the JobManager calls of the stretch are made and return; the task goes on
\* to its next await, or returns, and the loop is idle again
leaves_store(task) ==
    /\ task \in inside
    /\ StoreStretch(task)
    /\ inside' = inside \ {task}
    /\ loop_task' = Idle
    /\ UNCHANGED <<chatVars, testVars, _lock>>

NextLock ==
    \/ \E task \in StoreTasks : loop_resumes(task)
    \/ \E task \in StoreTasks : enters_store(task)
    \/ \E task \in StoreTasks : leaves_store(task)

SpecLock == Init /\ [][NextLock]_vars

\* the provider call of the run of job_id is outstanding
AwaitingProvider(job_id) ==
    /\ run[job_id].pc \in {"download", "stt", "parsing"}
    /\ loop_task # [task |-> "run", job_id |-> job_id]

C25_DirsOnlyForStoredJobs ==
    /\ dirs \subseteq Keys(jobs)
    /\ Cardinality(dirs) <= max_jobs

(***************************************************************************)
(* The synchronous test pipeline, POST /api/test/full (routers/test.py):   *)
(* download, then subtitles first with speech-to-text after them, then the *)
(* recipe parser.  One action per stretch between two awaits.              *)
(***************************************************************************)
TEST_MIN_TRANSCRIPT_LENGTH == 20

\* what await download_subtitles and parse_json3_subtitles may do: no
\* subtitles (None), an exception, or the subtitle file's language and kind
\* with what parsing it gives: None, an exception, or a transcript whose
\* full_text is never empty
SubtitleOutcomes ==
    {[kind |-> "none"], [kind |-> "Exception"]}
    \cup {[kind |-> "info", language |-> language, is_auto_generated |-> auto,
           parsed |-> parsed] :
            language \in {"ko", "en"}, auto \in BOOLEAN,
            parsed \in {[kind |-> "none"], [kind |-> "Exception"]}
                       \cup {[kind |-> "ok", transcript |-> [full_text |-> n]] :
                                n \in {1, 19, 20}}}

\* the try block of the transcript stage: transcript and source after it
subtitle_stage(sub) ==
    IF sub.kind # "info" \/ sub.parsed.kind # "ok"
    THEN [transcript |-> None, source |-> None]
    ELSE [transcript |-> sub.parsed.transcript,
          source |-> IF sub.parsed.transcript.full_text >= TEST_MIN_TRANSCRIPT_LENGTH
                     THEN Str(<<"youtube_", sub.language>>
                              \o (IF sub.is_auto_generated THEN <<"_auto">> ELSE <<>>))
                     ELSE None]

\* the test of the speech-to-text branch: if not transcript or not
\* transcript.get("full_text")
needs_whisper(transcript) ==
    transcript = None \/ Get(transcript, "full_text", 0) = 0

\* the except of the pipeline: the response of a failed run
TestFailure(e) == [pc |-> "idle", success |-> FALSE, error |-> e]

\* POST /api/test/full up to await download_video
test_full_pipeline(url) ==
    /\ test_run.pc = "idle"
    /\ test_run' = IF extract_video_id(url) = NoneStr
                   THEN [pc |-> "idle", code |-> 400]
                   ELSE [pc |-> "download", url |-> url]
    /\ UNCHANGED <<jobs, dirs, nextId, run, resp, calls, progressLog, sweep, lateWrites,
                   now, chatVars, lockVars>>

\* await download_video is over: up to await download_subtitles
test_download_returns(outcome) ==
    /\ test_run.pc = "download"
    /\ test_run' = IF outcome.kind = "ok"
                   THEN [pc |-> "subtitles", url |-> test_run.url]
                   ELSE TestFailure(outcome.text)
    /\ UNCHANGED <<jobs, dirs, nextId, run, resp, calls, progressLog, sweep, lateWrites,
                   now, chatVars, lockVars>>

\* await download_subtitles is over: the rest of the try block, then up to
\* await transcribe_audio or, without it, up to await parse_recipe
test_subtitles_return(sub) ==
    /\ test_run.pc = "subtitles"
    /\ LET stage == subtitle_stage(sub)
       IN  test_run' = [pc |-> IF needs_whisper(stage.transcript) THEN "stt" ELSE "llm",
                        url |-> test_run.url, subtitles |-> sub, whisper |-> FALSE,
                        transcript |-> stage.transcript, source |-> stage.source]
    /\ UNCHANGED <<jobs, dirs, nextId, run, resp, calls, progressLog, sweep, lateWrites,
                   now, chatVars, lockVars>>

\* await transcribe_audio is over: up to await parse_recipe
test_transcribe_returns(outcome) ==
    /\ test_run.pc = "stt"
    /\ test_run' = IF outcome.kind = "ok"
                   THEN [test_run EXCEPT !.pc = "llm", !.whisper = TRUE,
                                         !.transcript = outcome.transcript,
                                         !.source = Str(<<"whisper">>)]
                   ELSE TestFailure(outcome.text)
    /\ UNCHANGED <<jobs, dirs, nextId, run, resp, calls, progressLog, sweep, lateWrites,
                   now, chatVars, lockVars>>

\* await parse_recipe is over: the response of a successful run
test_parse_returns(script) ==
    /\ test_run.pc = "llm"
    /\ LET r == parse_recipe(test_run.transcript, PARSE_MAX_RETRIES, script)
       IN  test_run' =
               IF r.raised
               THEN TestFailure(<<r.error>>)
               ELSE [pc |-> "idle", success |-> TRUE,
                     subtitles |-> test_run.subtitles, whisper |-> test_run.whisper,
                     transcript_source |-> test_run.source,
                     transcript_length |-> test_run.transcript.full_text,
                     recipe |-> r.recipe]
    /\ UNCHANGED <<jobs, dirs, nextId, run, resp, calls, progressLog, sweep, lateWrites,
                   now, chatVars, lockVars>>

NextFull ==
    \/ \E url \in Urls : test_full_pipeline(url)
    \/ \E outcome \in DownloadOutcomes : test_download_returns(outcome)
    \/ \E sub \in SubtitleOutcomes : test_subtitles_return(sub)
    \/ \E outcome \in TranscribeOutcomes : test_transcribe_returns(outcome)
    \/ \E script \in ParseScripts : test_parse_returns(script)

SpecFull == Init /\ [][NextFull]_vars

\* the subtitles of a run are usable: available, parsed, 20 characters or more
UsableSubtitles(sub) ==
    /\ sub.kind = "info"
    /\ sub.parsed.kind = "ok"
    /\ sub.parsed.transcript.full_text >= 20

\* C26: in a successful run of the test pipeline speech-to-text was used
\* exactly when the subtitles were unavailable, unparsable or shorter than 20
\* characters, and transcript_source names the path taken: "whisper" after
\* speech-to-text, a "youtube_..." name after subtitles, never None.
C26_SubtitleFirstFallback ==
    ("success" \in DOMAIN test_run /\ test_run.success) =>
        /\ test_run.whisper = ~UsableSubtitles(test_run.subtitles)
        /\ test_run.transcript_source # None
        /\ test_run.whisper => test_run.transcript_source = Str(<<"whisper">>)
        /\ ~test_run.whisper =>
               /\ test_run.transcript_source # Str(<<"whisper">>)
               /\ Head(test_run.transcript_source.str) = "youtube_"

(***************************************************************************)
(* The provider call when the provider answers without content: turns for  *)
(* step 1 of the first session, the provider answering at each attempt     *)
(* with a reply, an empty or null content, no choices or a lost connection.*)
(***************************************************************************)
NextEmpty ==
    \/ StartSession
    \/ \E message \in Messages :
       \E script \in Scripts(ProviderOutcomes \ {"RateLimitError", "APIError", "Exception"}) :
       \E ctor \in NoChoicesRaises :
           /\ Room
           /\ send_message(ChatRequest(Uuid4Order[1], 1, message, None), script, ctor)

SpecEmpty == Init /\ [][NextEmpty]_vars

\* the provider gave no usable content at this attempt: no choices, or a
\* choice whose content is empty or null
NoContent(entry) == entry.outcome \in {"no_choices", "empty", "null"}

\* C27: a chat turn at whose every attempt the provider gave no usable
\* content is answered with the 500, and no chat_history holds an assistant
\* entry with empty content.
C27_NoEmptyReply ==
    /\ (/\ IsTurn(chatResp)
        /\ sent # <<>>
        /\ \A i \in 1..Len(sent) : NoContent(sent[i])) => chatResp.code = 500
    /\ \A sid \in DOMAIN cooking_sessions :
           LET h == cooking_sessions[sid].chat_history
           IN  \A i \in 1..Len(h) : h[i].role = "assistant" => h[i].content # Str("")

(***************************************************************************)
(* Properties of the chat service, continued.                              *)
(***************************************************************************)
\* C28: the chat_history stored in a session is capped: its length never
\* exceeds the bound of the history, MAX_HISTORY_MESSAGES, however many
\* successful turns are made.
C28_HistoryCapped ==
    \A sid \in DOMAIN cooking_sessions :
        Len(cooking_sessions[sid].chat_history) <= MAX_HISTORY_MESSAGES

(***************************************************************************)
(* Two jobs side by side: the store of a JobManager holding two pending    *)
(* records with their runs scheduled, below its capacity.  No job is       *)
(* created here, so the sweep never runs; the runs, the clock and DELETE   *)
(* act on the two records.                                                 *)
(***************************************************************************)
\* the record create_job inserts
PendingJob(job_id, url, t) ==
    [job_id |-> job_id, status |-> "pending", progress |-> 0,
     message |-> <<"waiting...">>, url |-> url, video_id |-> extract_video_id(url),
     result |-> None, created_at |-> t, updated_at |-> t]

InitFrame ==
    /\ \E url1, url2 \in {url \in Urls : extract_video_id(url) # NoneStr} :
           /\ jobs = <<PendingJob(1, url1, 0), PendingJob(2, url2, 0)>>
           /\ run = [j \in JobIds |->
                        IF j = 1 THEN [NoRun EXCEPT !.pc = "scheduled", !.url = url1]
                        ELSE IF j = 2 THEN [NoRun EXCEPT !.pc = "scheduled", !.url = url2]
                        ELSE NoRun]
    /\ nextId = 2
    /\ progressLog = [j \in JobIds |-> IF j \in 1..2 THEN <<0>> ELSE <<>>]
    /\ dirs = {}
    /\ now = 0
    /\ resp = NoResp
    /\ calls = [j \in JobIds |-> <<>>]
    /\ sweep = NoSweep
    /\ lateWrites = {}
    /\ cooking_sessions = [sid \in {} |-> None]
    /\ issued = {}
    /\ upload = None
    /\ chatResp = NoResp
    /\ sent = <<>>
    /\ lastTurn = [sid \in {} |-> 0]
    /\ _lock = Free
    /\ loop_task = Idle
    /\ inside = {}
    /\ test_run = [pc |-> "idle"]

NextFrame ==
    \/ Tick /\ UNCHANGED <<chatVars, lockVars, testVars>>
    \/ \E job_id \in JobIds : delete_job_endpoint(job_id) /\ UNCHANGED <<chatVars, lockVars, testVars>>
    \/ \E job_id \in JobIds : process_video_start(job_id) /\ UNCHANGED <<chatVars, lockVars, testVars>>
    \/ \E job_id \in JobIds : \E outcome \in DownloadOutcomes :
           download_returns(job_id, outcome) /\ UNCHANGED <<chatVars, lockVars, testVars>>
    \/ \E job_id \in JobIds : \E outcome \in TranscribeOutcomes :
           transcribe_returns(job_id, outcome) /\ UNCHANGED <<chatVars, lockVars, testVars>>
    \/ \E job_id \in JobIds : \E recipe \in Recipes :
           parse_returns(job_id, recipe) /\ UNCHANGED <<chatVars, lockVars, testVars>>

SpecFrame == InitFrame /\ [][NextFrame]_vars

\* the fields of a record that are set at creation
CreationFields == {"job_id", "url", "video_id", "created_at"}

\* C29: a stretch of the run of job J (its position moves after it was
\* scheduled) leaves the record of every other job
\* as it was; J's record, when stored, stays stored with its job_id, url,
\* video_id and created_at unchanged and its updated_at set to the time of
\* the update; when J is not stored the whole store is unchanged.
C29_RunChangesOwnRecordOnly ==
    [][\A J \in JobIds :
          (run[J].pc # "none" /\ run'[J] # run[J]) =>
              /\ \A K \in JobIds \ {J} : get_job(jobs', K) = get_job(jobs, K)
              /\ J \notin Keys(jobs) => jobs' = jobs
              /\ J \in Keys(jobs) =>
                     /\ J \in Keys(jobs')
                     /\ \A field \in CreationFields :
                            get_job(jobs', J)[field] = get_job(jobs, J)[field]
                     /\ get_job(jobs', J).updated_at = now]_vars

\* the run of job 1 has updated its record after the clock moved, while the
\* record of job 2 is stored as it was created
C29_Witness ==
    /\ Keys(jobs) = {1, 2}
    /\ get_job(jobs, 1).status # "pending"
    /\ get_job(jobs, 1).created_at < get_job(jobs, 1).updated_at
    /\ get_job(jobs, 2) = PendingJob(2, get_job(jobs, 2).url, 0)

(***************************************************************************)
(* Properties of the chat service: the completion percentage.              *)
(***************************************************************************)
\* the response reports a completion percentage: session status and chat turn
ReportsProgress(response) ==
    \/ "progress_percent" \in DOMAIN response
    \/ "session_status" \in DOMAIN response

ReportedProgress(response) ==
    IF "progress_percent" \in DOMAIN response
    THEN response.progress_percent
    ELSE response.session_status.progress_percent

\* C30: the completion percentage a response reports for a session is
\* floor(100 * |completed_steps| / total_steps), 0 when total_steps is 0,
\* and lies in 0..100.
C30_ProgressPercent ==
    ReportsProgress(chatResp) =>
        LET session == cooking_sessions[chatResp.request.session_id]
            completed == Len(session.completed_steps)
            total == session.total_steps
        IN  /\ ReportedProgress(chatResp)
                   = IF total = 0 THEN 0 ELSE (100 * completed) \div total
            /\ ReportedProgress(chatResp) \in 0..100

====
